---------------------------- MODULE Spec2Model ----------------------------
(***************************************************************************)
(* Model of the FundPilot decision core: indicator calculator              *)
(* (strategy/indicators.py), threshold registry (strategy/asset_config.py),*)
(* the two strategy evaluators (strategy/etf_strategy.py,                  *)
(* strategy/bond_strategy.py), the decision synthesizer                    *)
(* (strategy/decision_synthesizer.py, ai/ai_decision.py) and the per-fund  *)
(* pipeline (scheduler/jobs.py, ai/decision_parser.py).                    *)
(*                                                                         *)
(* Number representation (Python floats become scaled integers):           *)
(*   - percent quantities (percentiles, deviation, drawdown, volatility,   *)
(*     daily change, every threshold in percent) are in hundredths of a    *)
(*     percent: 15.0 % is 1500;                                            *)
(*   - confidences and signal strengths (0..1) are in 1/10000: 0.3 is 3000;*)
(*   - the advisory weight ai_weight is in tenths: 0.6 is 6;               *)
(*   - prices (net asset values) are plain integers.                       *)
(* Arithmetic on the scaled integers is exact.  The inputs are chosen so   *)
(* that every quotient the model takes is exact too, except that Python's  *)
(* binary floating point may round a sum that lands exactly on a           *)
(* score_to_confidence breakpoint (0.45, 0.75) to either side of it; the   *)
(* model places such a sum on the breakpoint.                              *)
(* Python None is the empty tuple, a present optional value a 1-tuple.     *)
(* Decision labels: "DoubleBuy" = 双倍补仓, "NormalBuy" = 正常定投,        *)
(* "Hold" = 观望, "StopBuy" = 暂停定投.  Confidence labels: "high" = 高,   *)
(* "mid" = 中, "low" = 低.  Consensus: "strong_low" = 强低估, "weak_low" = *)
(* 弱低估, "strong_high" = 强高估, "weak_high" = 弱高估, "split" = 分歧.   *)
(* Trend: "up" = 上升趋势, "down" = 下降趋势, "flat" = 震荡.  Zones:       *)
(* "golden" = 黄金坑, "under" = 低估区, "fair" = 合理区, "elevated" =      *)
(* 偏高区, "over" = 高估区, "halted" = 熔断, "opportunity" = 机会区,       *)
(* "normal" = 正常区.  Warning strings are modelled by tags.               *)
(***************************************************************************)
EXTENDS Integers, Sequences, FiniteSets, TLC

VARIABLES
    pc,               \* position in the evaluation: which operation ran last
    current_price,    \* argument of calculate_all_metrics
    prices_history,   \* argument of calculate_all_metrics (most recent first)
    metrics,          \* Optional QuantMetrics
    asset_class,      \* asset-class string handed to the evaluator / synthesizer
    market_drop,      \* Optional broad-market move handed to evaluate_etf_strategy
    strategy_result,  \* Optional StrategyResult
    ai_result,        \* Optional AIDecisionResult
    synthesized,      \* Optional SynthesizedDecision
    combined_confidence,  \* Optional: synthesize_decisions' local of that name
    raised,           \* exception that ended the evaluation, "" when none
    signal,           \* Optional BondSignal: evaluate_bond_strategy's local
    args,             \* Optional: function and arguments of the call made
    result,           \* Optional: what the call returned
    registry,         \* contents of the module-level dict ASSET_THRESHOLDS
    decision_log      \* rows written by save_decision_log, oldest first

vars == <<pc, current_price, prices_history, metrics, asset_class, market_drop,
          strategy_result, ai_result, synthesized, combined_confidence, raised,
          signal, args, result, registry, decision_log>>

-----------------------------------------------------------------------------
(* Python values *)

None == <<>>
Some(x) == <<x>>
Val(o) == o[1]

\* Results of a raising expression: x / 0 and max([]) / min([])
ZeroDivisionError == 0 - 1000000000
ValueError == 0 - 1000000001
Raised(x) == x = ZeroDivisionError \/ x = ValueError

PyMin2(a, b) == IF a < b THEN a ELSE b
PyMax2(a, b) == IF a > b THEN a ELSE b
Abs(x) == IF x < 0 THEN 0 - x ELSE x

\* a / b of two scaled numbers; raises on b = 0
Div(a, b) == IF b = 0 THEN ZeroDivisionError ELSE a \div b

\* max(lo, min(hi, x)), an exception passing through
Clamp(lo, hi, x) == IF Raised(x) THEN x ELSE PyMax2(lo, PyMin2(hi, x))

RECURSIVE SeqSum(_)
SeqSum(s) == IF s = <<>> THEN 0 ELSE Head(s) + SeqSum(Tail(s))

RECURSIVE SeqMax(_)
SeqMax(s) ==
    IF s = <<>> THEN ValueError
    ELSE IF Len(s) = 1 THEN Head(s)
    ELSE PyMax2(Head(s), SeqMax(Tail(s)))

RECURSIVE SeqMin(_)
SeqMin(s) ==
    IF s = <<>> THEN ValueError
    ELSE IF Len(s) = 1 THEN Head(s)
    ELSE PyMin2(Head(s), SeqMin(Tail(s)))

\* prices[:window] if len(prices) > window else prices
Recent(prices, window) ==
    IF Len(prices) > window THEN SubSeq(prices, 1, window) ELSE prices

RECURSIVE SqrtSearch(_, _, _)
SqrtSearch(n, lo, hi) ==
    IF lo >= hi THEN lo
    ELSE LET mid == (lo + hi + 1) \div 2
         IN  IF mid * mid <= n THEN SqrtSearch(n, mid, hi)
             ELSE SqrtSearch(n, lo, mid - 1)

\* math.sqrt on scaled integers, rounded down
Sqrt(n) == SqrtSearch(n, 0, PyMin2(n, 40000))

-----------------------------------------------------------------------------
(* strategy/asset_config.py *)

AssetClass ==
    {"GOLD_ETF", "COMMODITY_CYCLE", "BOND_ENHANCED", "BOND_PURE",
     "DEFAULT_ETF", "DEFAULT_BOND"}

StrategyThresholds(zones, ma_base, drop, rise, low, high, weight) ==
    [zone_thresholds |-> zones, ma_base_threshold |-> ma_base,
     circuit_breaker_drop |-> drop, circuit_breaker_rise |-> rise,
     consensus_low_threshold |-> low, consensus_high_threshold |-> high,
     ai_weight |-> weight]

ASSET_THRESHOLDS(ac) ==
    CASE ac = "GOLD_ETF" ->
           StrategyThresholds(<<1500, 3500, 6500, 8500>>, -250, -800, 800, 3500, 6500, 6)
      [] ac = "COMMODITY_CYCLE" ->
           StrategyThresholds(<<1000, 3000, 7000, 9000>>, -400, -1000, 1000, 3000, 7000, 5)
      [] ac = "BOND_ENHANCED" ->
           StrategyThresholds(<<2000, 4000, 6000, 8000>>, -150, -300, 300, 4000, 6000, 4)
      [] ac = "BOND_PURE" ->
           StrategyThresholds(<<2500, 4500, 5500, 7500>>, -80, -150, 150, 4500, 5500, 3)
      [] ac = "DEFAULT_ETF" ->
           StrategyThresholds(<<2000, 4000, 6000, 8000>>, -300, -700, 700, 4000, 6000, 5)
      [] ac = "DEFAULT_BOND" ->
           StrategyThresholds(<<2000, 4000, 6000, 8000>>, -150, -300, 300, 4000, 6000, 4)

\* get_thresholds falling back to DEFAULT_BOND in the except branch
get_thresholds_default_bond(ac) ==
    IF ac \in AssetClass THEN ASSET_THRESHOLDS(ac)
    ELSE ASSET_THRESHOLDS("DEFAULT_BOND")

get_thresholds(ac) ==
    IF ac \in AssetClass THEN ASSET_THRESHOLDS(ac)
    ELSE ASSET_THRESHOLDS("DEFAULT_ETF")

get_zone_name(percentile, thresholds) ==
    LET z == thresholds.zone_thresholds
    IN  IF percentile < z[1] THEN "golden"
        ELSE IF percentile < z[2] THEN "under"
        ELSE IF percentile < z[3] THEN "fair"
        ELSE IF percentile < z[4] THEN "elevated"
        ELSE "over"

\* fund_name is modelled by the keyword class it matches: "gold", "cycle",
\* "enhanced" or "" (no keyword)
infer_asset_class(fund_type, fund_name) ==
    IF fund_type = "ETF_Feeder" THEN
        IF fund_name = "gold" THEN "GOLD_ETF"
        ELSE IF fund_name = "cycle" THEN "COMMODITY_CYCLE"
        ELSE "DEFAULT_ETF"
    ELSE IF fund_type = "Bond" THEN
        IF fund_name = "enhanced" THEN "BOND_ENHANCED" ELSE "BOND_PURE"
    ELSE "DEFAULT_ETF"

-----------------------------------------------------------------------------
(* strategy/indicators.py *)

PERCENTILE_WINDOW_SHORT == 60
PERCENTILE_WINDOW_MID == 250
PERCENTILE_WINDOW_LONG == 500
MA_WINDOW == 60

\* get_percentile_consensus counting a rank on the band as outside it
get_percentile_consensus_inclusive(m, low_threshold, high_threshold) ==
    LET low_count ==
            (IF m.percentile_60 <= low_threshold THEN 1 ELSE 0)
          + (IF m.percentile_250 <= low_threshold THEN 1 ELSE 0)
          + (IF m.percentile_500 <= low_threshold THEN 1 ELSE 0)
        high_count ==
            (IF m.percentile_60 >= high_threshold THEN 1 ELSE 0)
          + (IF m.percentile_250 >= high_threshold THEN 1 ELSE 0)
          + (IF m.percentile_500 >= high_threshold THEN 1 ELSE 0)
    IN  IF low_count = 3 THEN "strong_low"
        ELSE IF low_count >= 2 THEN "weak_low"
        ELSE IF high_count = 3 THEN "strong_high"
        ELSE IF high_count >= 2 THEN "weak_high"
        ELSE "split"

get_percentile_consensus(m, low_threshold, high_threshold) ==
    LET low_count ==
            (IF m.percentile_60 < low_threshold THEN 1 ELSE 0)
          + (IF m.percentile_250 < low_threshold THEN 1 ELSE 0)
          + (IF m.percentile_500 < low_threshold THEN 1 ELSE 0)
        high_count ==
            (IF m.percentile_60 > high_threshold THEN 1 ELSE 0)
          + (IF m.percentile_250 > high_threshold THEN 1 ELSE 0)
          + (IF m.percentile_500 > high_threshold THEN 1 ELSE 0)
    IN  IF low_count = 3 THEN "strong_low"
        ELSE IF low_count >= 2 THEN "weak_low"
        ELSE IF high_count = 3 THEN "strong_high"
        ELSE IF high_count >= 2 THEN "weak_high"
        ELSE "split"

\* QuantMetrics.percentile_consensus: the default bands 40 / 60
percentile_consensus(m) == get_percentile_consensus(m, 4000, 6000)

\* QuantMetrics.get_consensus_with_thresholds
get_consensus_with_thresholds(m, low_threshold, high_threshold) ==
    get_percentile_consensus(m, low_threshold, high_threshold)

\* QuantMetrics.trend_direction
trend_direction(m) ==
    LET diff == m.percentile_60 - m.percentile_500
    IN  IF diff > 2000 THEN "up"
        ELSE IF diff < -2000 THEN "down"
        ELSE "flat"

\* calculate_percentile without the max_price == min_price return (lines 147-148)
calculate_percentile_unguarded(current, prices) ==
    IF prices = <<>> THEN 5000
    ELSE LET max_price == SeqMax(prices)
             min_price == SeqMin(prices)
         IN  Clamp(0, 10000,
                   Div((current - min_price) * 10000, max_price - min_price))

\* calculate_percentile without the final max(0, min(100, percentile))
calculate_percentile_unclamped(current, prices) ==
    IF prices = <<>> THEN 5000
    ELSE LET max_price == SeqMax(prices)
             min_price == SeqMin(prices)
         IN  IF max_price = min_price THEN 5000
             ELSE Div((current - min_price) * 10000, max_price - min_price)

\* calculate_percentile dividing by max_price in place of the window's range
calculate_percentile_of_max(current, prices) ==
    IF prices = <<>> THEN 5000
    ELSE LET max_price == SeqMax(prices)
             min_price == SeqMin(prices)
         IN  IF max_price = min_price THEN 5000
             ELSE Clamp(0, 10000, Div((current - min_price) * 10000, max_price))

calculate_percentile(current, prices) ==
    IF prices = <<>> THEN 5000
    ELSE LET max_price == SeqMax(prices)
             min_price == SeqMin(prices)
         IN  IF max_price = min_price THEN 5000
             ELSE Clamp(0, 10000,
                        Div((current - min_price) * 10000, max_price - min_price))

calculate_ma(prices, window) ==
    IF prices = <<>> THEN 0
    ELSE LET recent_prices == Recent(prices, window)
         IN  Div(SeqSum(recent_prices), Len(recent_prices))

calculate_ma_deviation(current, ma) ==
    IF ma = 0 THEN 0
    ELSE Div((current - ma) * 10000, ma)

calculate_drawdown(current, peak_price) ==
    IF peak_price = 0 THEN 0
    ELSE LET dd == Div((peak_price - current) * 10000, peak_price)
         IN  IF Raised(dd) THEN dd ELSE PyMax2(0, dd)

\* the daily returns of calculate_volatility, in 1/1000; an entry whose base is 0
\* is skipped
RECURSIVE DailyReturns(_)
DailyReturns(recent) ==
    IF Len(recent) < 2 THEN <<>>
    ELSE IF recent[2] /= 0
         THEN <<Div((recent[1] - recent[2]) * 1000, recent[2])>>
              \o DailyReturns(Tail(recent))
         ELSE DailyReturns(Tail(recent))

RECURSIVE SumSquares(_, _)
SumSquares(returns, mean) ==
    IF returns = <<>> THEN 0
    ELSE (Head(returns) - mean) * (Head(returns) - mean)
         + SumSquares(Tail(returns), mean)

\* std_dev * sqrt(250) * 100, with sqrt(250) taken as 15.81
calculate_volatility(prices, window) ==
    IF Len(prices) < 2 THEN 0
    ELSE LET recent_prices == Recent(prices, window)
         IN  IF Len(recent_prices) < 2 THEN 0
             ELSE LET returns == DailyReturns(recent_prices)
                  IN  IF Len(returns) < 2 THEN 0
                      ELSE LET mean_return == Div(SeqSum(returns), Len(returns))
                               variance == Div(SumSquares(returns, mean_return),
                                               Len(returns) - 1)
                           IN  IF Raised(mean_return) THEN mean_return
                               ELSE IF Raised(variance) THEN variance
                               ELSE (Sqrt(variance) * 1581) \div 10

QuantMetrics(p60, p250, p500, ma, dev, mx, mn, dd, dd60, vol, dc) ==
    [percentile_60 |-> p60, percentile_250 |-> p250, percentile_500 |-> p500,
     ma_60 |-> ma, ma_deviation |-> dev, max_250 |-> mx, min_250 |-> mn,
     drawdown |-> dd, drawdown_60 |-> dd60, volatility_60 |-> vol,
     daily_change |-> dc]

calculate_all_metrics(current, history, daily_change) ==
    IF history = <<>> THEN
        QuantMetrics(5000, 5000, 5000, current, 0, current, current, 0, 0, 0,
                     daily_change)
    ELSE LET prices_60 == Recent(history, PERCENTILE_WINDOW_SHORT)
             prices_250 == Recent(history, PERCENTILE_WINDOW_MID)
             prices_500 == Recent(history, PERCENTILE_WINDOW_LONG)
             max_250 == SeqMax(prices_250)
             min_250 == SeqMin(prices_250)
             max_60 == SeqMax(prices_60)
             ma_60 == calculate_ma(history, MA_WINDOW)
             volatility_60 == calculate_volatility(history, 60)
         IN  QuantMetrics(
                 calculate_percentile(current, prices_60),
                 calculate_percentile(current, prices_250),
                 calculate_percentile(current, prices_500),
                 ma_60,
                 IF Raised(ma_60) THEN ma_60
                 ELSE calculate_ma_deviation(current, ma_60),
                 max_250, min_250,
                 IF Raised(max_250) THEN max_250
                 ELSE calculate_drawdown(current, max_250),
                 IF Raised(max_60) THEN max_60
                 ELSE calculate_drawdown(current, max_60),
                 volatility_60,
                 daily_change)

\* the exception a QuantMetrics computation ended with, "" when it completed
MetricsException(m) ==
    LET fields == {m.percentile_60, m.percentile_250, m.percentile_500, m.ma_60,
                   m.ma_deviation, m.max_250, m.min_250, m.drawdown,
                   m.drawdown_60, m.volatility_60}
    IN  IF ZeroDivisionError \in fields THEN "ZeroDivisionError"
        ELSE IF ValueError \in fields THEN "ValueError"
        ELSE ""

\* get_dynamic_ma_threshold without the floor of 0.3
get_dynamic_ma_threshold_unfloored(volatility) ==
    0 - PyMin2(500, volatility \div 10)

get_dynamic_ma_threshold(volatility) ==
    0 - PyMax2(30, PyMin2(500, volatility \div 10))

\* daily_volatility = volatility / 15.8; the pair (normal, severe)
get_dynamic_drop_threshold(volatility) ==
    <<0 - PyMax2(20, PyMin2(500, (volatility * 15) \div 158)),
      0 - PyMax2(40, PyMin2(800, (volatility * 25) \div 158))>>

-----------------------------------------------------------------------------
(* strategy/etf_strategy.py *)

Decision == {"DoubleBuy", "NormalBuy", "Hold", "StopBuy"}

StrategyResult(decision, confidence, zone, warnings) ==
    [decision |-> decision, confidence |-> confidence, zone |-> zone,
     warnings |-> warnings]

\* an evaluation that raised instead of returning: the exception is carried in
\* the confidence slot
RaisedResult(exception) == StrategyResult("", exception, "", <<>>)

\* the exception an evaluator call ended with, "" when it returned
StrategyException(r) ==
    IF r.confidence = ZeroDivisionError THEN "ZeroDivisionError"
    ELSE IF r.confidence = ValueError THEN "ValueError"
    ELSE ""

\* the asset_class argument: "" stands for both None and the empty string
NoClass == ""

\* the warnings collected before the decision logic (lines 110-125)
EtfPreWarnings(m, ac, zones, consensus, trend) ==
    LET percentile == m.percentile_250
    IN  (IF consensus = "split" THEN <<"consensus_split">> ELSE <<>>)
        \o (IF trend = "up" /\ percentile > zones[3]
            THEN <<"trend_up">> ELSE <<>>)
        \o (IF trend = "down" /\ percentile < zones[2]
            THEN <<"trend_down">> ELSE <<>>)
        \o (IF ac = "GOLD_ETF" /\ percentile < zones[4] THEN <<"gold_hint">>
            ELSE IF ac = "COMMODITY_CYCLE" THEN <<"cycle_hint">>
            ELSE <<>>)

\* golden pit with DoubleBuy on the strong consensus only
EtfGoldenPitStrongOnly(consensus, zone, warnings) ==
    IF consensus = "strong_low"
    THEN StrategyResult("DoubleBuy", 9000, zone, warnings)
    ELSE StrategyResult("NormalBuy", 6000, zone,
                        Append(warnings, "golden_pit_doubt"))

\* percentile < zones[0]: the golden pit (lines 133-143)
EtfGoldenPit(consensus, zone, warnings) ==
    IF consensus \in {"strong_low", "weak_low"}
    THEN StrategyResult("DoubleBuy",
                        IF consensus = "strong_low" THEN 9000 ELSE 7500,
                        zone, warnings)
    ELSE StrategyResult("NormalBuy", 6000, zone,
                        Append(warnings, "golden_pit_doubt"))

\* overvalued zone with market_drop <= -2.0 in place of market_drop < -2.0
EtfOvervaluedInclusive(ac, mdrop, consensus, zone, warnings) ==
    IF ac = "GOLD_ETF" THEN
        IF mdrop /= None /\ Val(mdrop) <= -200
        THEN StrategyResult("NormalBuy", 6500, zone,
                            Append(warnings, "hedge_value"))
        ELSE StrategyResult("Hold", 6000, zone, warnings)
    ELSE IF consensus \in {"strong_high", "weak_high"}
        THEN StrategyResult("StopBuy", 9500, zone, warnings)
        ELSE StrategyResult("StopBuy", 8000, zone,
                            IF consensus = "split"
                            THEN Append(warnings, "split_soften_stop")
                            ELSE warnings)

\* percentile >= zones[3]: the overvalued zone (lines 181-204)
\* overvalued zone with the hedge rule applied to every class
EtfOvervaluedHedgeForAll(ac, mdrop, consensus, zone, warnings) ==
    IF mdrop /= None /\ Val(mdrop) < -200
    THEN StrategyResult("NormalBuy", 6500, zone, Append(warnings, "hedge_value"))
    ELSE IF ac = "GOLD_ETF"
    THEN StrategyResult("Hold", 6000, zone, warnings)
    ELSE IF consensus \in {"strong_high", "weak_high"}
    THEN StrategyResult("StopBuy", 9500, zone, warnings)
    ELSE StrategyResult("StopBuy", 8000, zone,
                        IF consensus = "split"
                        THEN Append(warnings, "split_soften_stop")
                        ELSE warnings)

EtfOvervalued(ac, mdrop, consensus, zone, warnings) ==
    IF ac = "GOLD_ETF" THEN
        IF mdrop /= None /\ Val(mdrop) < -200
        THEN StrategyResult("NormalBuy", 6500, zone,
                            Append(warnings, "hedge_value"))
        ELSE StrategyResult("Hold", 6000, zone, warnings)
    ELSE IF consensus \in {"strong_high", "weak_high"}
        THEN StrategyResult("StopBuy", 9500, zone, warnings)
        ELSE StrategyResult("StopBuy", 8000, zone,
                            IF consensus = "split"
                            THEN Append(warnings, "split_soften_stop")
                            ELSE warnings)

\* fair zone with ma_deviation <= 0 in place of ma_deviation < 0
EtfFairZoneInclusive(m, dynamic_ma_threshold, zone, warnings) ==
    IF m.ma_deviation < dynamic_ma_threshold
    THEN StrategyResult("NormalBuy", 6500, zone, warnings)
    ELSE IF m.ma_deviation <= 0
    THEN StrategyResult("NormalBuy", 5500, zone, warnings)
    ELSE StrategyResult("Hold", 5000, zone, warnings)

\* zones[1] <= percentile < zones[2]: the fair zone (lines 155-169)
EtfFairZone(m, dynamic_ma_threshold, zone, warnings) ==
    IF m.ma_deviation < dynamic_ma_threshold
    THEN StrategyResult("NormalBuy", 6500, zone, warnings)
    ELSE IF m.ma_deviation < 0
    THEN StrategyResult("NormalBuy", 5500, zone, warnings)
    ELSE StrategyResult("Hold", 5000, zone, warnings)

\* the decision logic of evaluate_etf_strategy (lines 127-214)
EtfDecide(m, ac, mdrop, thresholds, warnings) ==
    LET zones == thresholds.zone_thresholds
        percentile == m.percentile_250
        consensus == percentile_consensus(m)
        zone == get_zone_name(percentile, thresholds)
        volatility_threshold == get_dynamic_ma_threshold(m.volatility_60)
        dynamic_ma_threshold ==
            PyMin2(volatility_threshold, thresholds.ma_base_threshold)
    IN  IF percentile < zones[1] THEN
            EtfGoldenPit(consensus, zone, warnings)
        ELSE IF percentile < zones[2] THEN
            StrategyResult("NormalBuy",
                           IF consensus \in {"strong_low", "weak_low"}
                           THEN 8000 ELSE 6500,
                           zone, warnings)
        ELSE IF percentile < zones[3] THEN
            EtfFairZone(m, dynamic_ma_threshold, zone, warnings)
        ELSE IF percentile < zones[4] THEN
            StrategyResult("Hold",
                           IF consensus \in {"strong_high", "weak_high"}
                           THEN 8500 ELSE 7000,
                           zone, warnings)
        ELSE EtfOvervalued(ac, mdrop, consensus, zone, warnings)

\* the circuit breaker with the drop check only
EtfCircuitBreakerDropOnly(m, thresholds) ==
    IF m.daily_change /= None
       /\ Val(m.daily_change) < thresholds.circuit_breaker_drop
    THEN Some(StrategyResult("Hold", 3000, "halted", <<"breaker_drop">>))
    ELSE None

\* the circuit breaker (lines 81-98): the early return, None when it does not trip
EtfCircuitBreaker(m, thresholds) ==
    IF m.daily_change /= None
       /\ Val(m.daily_change) < thresholds.circuit_breaker_drop
    THEN Some(StrategyResult("Hold", 3000, "halted", <<"breaker_drop">>))
    ELSE IF m.daily_change /= None
            /\ Val(m.daily_change) > thresholds.circuit_breaker_rise
    THEN Some(StrategyResult("Hold", 3000, "halted", <<"breaker_rise">>))
    ELSE None

evaluate_etf_strategy(m, asset_class_arg, fund_name, mdrop) ==
    LET ac == IF asset_class_arg = NoClass
              THEN infer_asset_class("ETF_Feeder", fund_name)
              ELSE asset_class_arg
        thresholds == get_thresholds(ac)
        zones == thresholds.zone_thresholds
        breaker == EtfCircuitBreaker(m, thresholds)
    IN  IF breaker /= None THEN Val(breaker)
        ELSE EtfDecide(m, ac, mdrop, thresholds,
                       EtfPreWarnings(m, ac, zones, percentile_consensus(m),
                                      trend_direction(m)))

-----------------------------------------------------------------------------
(* strategy/bond_strategy.py *)

BOND_OVERVALUED_PERCENTILE == 9000

BondSignal(has_opportunity, signal_type, strength, is_overvalued, dyn) ==
    [has_opportunity |-> has_opportunity, signal_type |-> signal_type,
     strength |-> strength, is_overvalued |-> is_overvalued,
     dynamic_thresholds |-> dyn]

\* signal 1 of detect_bond_signal: <<>> or one (name, strength) pair
MaBreakSignal(m, ma_threshold) ==
    IF m.ma_deviation < ma_threshold
    THEN LET q == Div(Abs(m.ma_deviation) * 10000, Abs(ma_threshold) * 3)
         IN  <<[name |-> "ma_break",
                strength |-> IF Raised(q) THEN q ELSE PyMin2(q, 10000)]>>
    ELSE <<>>

\* signal 2 with the linear mapping missing its + 0.5
DropSignalNoOffset(m, drop_normal, drop_severe) ==
    IF m.daily_change /= None /\ Val(m.daily_change) < drop_normal
    THEN IF Val(m.daily_change) < drop_severe
         THEN <<[name |-> "day_drop", strength |-> 10000]>>
         ELSE LET q == Div((Abs(Val(m.daily_change)) - Abs(drop_normal)) * 5000,
                           Abs(drop_severe) - Abs(drop_normal))
              IN  <<[name |-> "day_drop",
                     strength |-> IF Raised(q) THEN q ELSE PyMin2(q, 10000)]>>
    ELSE <<>>

\* signal 2 of detect_bond_signal
DropSignal(m, drop_normal, drop_severe) ==
    IF m.daily_change /= None /\ Val(m.daily_change) < drop_normal
    THEN IF Val(m.daily_change) < drop_severe
         THEN <<[name |-> "day_drop", strength |-> 10000]>>
         ELSE LET q == Div((Abs(Val(m.daily_change)) - Abs(drop_normal)) * 5000,
                           Abs(drop_severe) - Abs(drop_normal))
              IN  <<[name |-> "day_drop",
                     strength |-> IF Raised(q) THEN q
                                  ELSE PyMin2(q + 5000, 10000)]>>
    ELSE <<>>

\* signals.sort(key=strength, reverse=True): stable, at most two entries
SortSignals(signals) ==
    IF Len(signals) = 2 /\ signals[2].strength > signals[1].strength
    THEN <<signals[2], signals[1]>>
    ELSE signals

detect_bond_signal(m, asset_class_arg) ==
    LET ac == IF asset_class_arg = NoClass THEN "DEFAULT_BOND" ELSE asset_class_arg
        thresholds == get_thresholds(ac)
        volatility_ma_threshold == get_dynamic_ma_threshold(m.volatility_60)
        ma_threshold == PyMin2(volatility_ma_threshold, thresholds.ma_base_threshold)
        drops == get_dynamic_drop_threshold(m.volatility_60)
        dyn == Some([ma_threshold |-> ma_threshold, drop_normal |-> drops[1],
                     drop_severe |-> drops[2], volatility_60 |-> m.volatility_60,
                     asset_class |-> ac])
        is_overvalued == m.percentile_250 >= BOND_OVERVALUED_PERCENTILE
        signals == MaBreakSignal(m, ma_threshold)
                   \o DropSignal(m, drops[1], drops[2])
        sorted == SortSignals(signals)
        strengths == [i \in 1..Len(sorted) |-> sorted[i].strength]
    IN  IF signals = <<>>
        THEN BondSignal(FALSE, <<"normal">>, 0, is_overvalued, dyn)
        ELSE IF \E i \in 1..Len(sorted) : Raised(sorted[i].strength)
        THEN BondSignal(TRUE, <<"raised">>, ZeroDivisionError, is_overvalued, dyn)
        ELSE BondSignal(TRUE, [i \in 1..Len(sorted) |-> sorted[i].name],
                        PyMin2(SeqSum(strengths), 10000), is_overvalued, dyn)

\* the warnings collected before the decision logic (lines 175-196)
BondPreWarnings(m, bond_signal) ==
    LET consensus == percentile_consensus(m)
        trend == trend_direction(m)
    IN  (IF bond_signal.dynamic_thresholds /= None
         THEN <<"dynamic_thresholds">> ELSE <<>>)
        \o (IF consensus = "split" THEN <<"consensus_split">> ELSE <<>>)
        \o (IF trend = "up" THEN <<"bond_trend_up">> ELSE <<>>)
        \o (IF trend = "down" THEN <<"bond_trend_down">> ELSE <<>>)

\* the overvalued branch with the strength compared to 0.7 in place of 0.8
BondOvervaluedStrongAt70(bond_signal, consensus, warnings) ==
    LET strong == bond_signal.has_opportunity /\ bond_signal.strength > 7000
        base == IF strong THEN 5000 ELSE 7000
    IN  StrategyResult(
            IF strong THEN "NormalBuy" ELSE "Hold",
            IF consensus = "strong_high"
            THEN PyMin2(9500, base + 1000) ELSE base,
            "over",
            IF strong THEN Append(warnings, "reduce_position")
            ELSE warnings)

\* if signal.is_overvalued (lines 198-225)
BondOvervalued(bond_signal, consensus, warnings) ==
    LET strong == bond_signal.has_opportunity /\ bond_signal.strength > 8000
        base == IF strong THEN 5000 ELSE 7000
    IN  StrategyResult(
            IF strong THEN "NormalBuy" ELSE "Hold",
            IF consensus = "strong_high"
            THEN PyMin2(9500, base + 1000) ELSE base,
            "over",
            IF strong THEN Append(warnings, "reduce_position")
            ELSE warnings)

\* if signal.has_opportunity (lines 228-244)
BondOpportunity(bond_signal, consensus, warnings) ==
    IF bond_signal.strength > 7000
    THEN StrategyResult("DoubleBuy",
                        IF consensus \in {"strong_low", "weak_low"}
                        THEN PyMin2(9500, 8000 + 1000) ELSE 8000,
                        "opportunity", warnings)
    ELSE StrategyResult("NormalBuy", 7000, "opportunity", warnings)

\* the normal branch with Hold for every class
BondNormalHold(ac, warnings) ==
    StrategyResult("Hold", 6000, "normal", warnings)

\* no opportunity (lines 245-271)
BondNormal(ac, warnings) ==
    IF ac = "BOND_ENHANCED"
    THEN StrategyResult("NormalBuy", 6000, "normal", warnings)
    ELSE StrategyResult("Hold", 6000, "normal", warnings)

\* the decision logic of evaluate_bond_strategy after the breaker (lines 172-281)
BondDecide(m, ac, bond_signal) ==
    LET consensus == percentile_consensus(m)
        warnings == BondPreWarnings(m, bond_signal)
    IN  IF bond_signal.is_overvalued
        THEN BondOvervalued(bond_signal, consensus, warnings)
        ELSE IF bond_signal.has_opportunity
        THEN BondOpportunity(bond_signal, consensus, warnings)
        ELSE BondNormal(ac, warnings)

\* the circuit breaker and the local signal of evaluate_bond_strategy (lines
\* 155-172): None when the breaker returns before the signal is computed
BondSignalOf(m, asset_class_arg, fund_name) ==
    LET ac == IF asset_class_arg = NoClass
              THEN infer_asset_class("Bond", fund_name)
              ELSE asset_class_arg
        thresholds == get_thresholds(ac)
        circuit_breaker == thresholds.circuit_breaker_drop
    IN  IF m.daily_change /= None /\ Val(m.daily_change) < circuit_breaker
        THEN None
        ELSE Some(detect_bond_signal(m, ac))

evaluate_bond_strategy(m, asset_class_arg, fund_name) ==
    LET ac == IF asset_class_arg = NoClass
              THEN infer_asset_class("Bond", fund_name)
              ELSE asset_class_arg
        bond_signal == BondSignalOf(m, asset_class_arg, fund_name)
    IN  IF bond_signal = None
        THEN StrategyResult("Hold", 3000, "halted", <<"bond_breaker">>)
        ELSE IF Raised(Val(bond_signal).strength)
        THEN RaisedResult(Val(bond_signal).strength)
        ELSE BondDecide(m, ac, Val(bond_signal))

-----------------------------------------------------------------------------
(* ai/ai_decision.py *)

AIDecisionResult(decision, confidence) ==
    [decision |-> decision, confidence |-> confidence]

confidence_to_score(confidence) ==
    IF confidence = "high" THEN 9000
    ELSE IF confidence = "mid" THEN 6000
    ELSE IF confidence = "low" THEN 3000
    ELSE 5000

score_to_confidence(score) ==
    IF score >= 7500 THEN "high"
    ELSE IF score >= 4500 THEN "mid"
    ELSE "low"

-----------------------------------------------------------------------------
(* strategy/decision_synthesizer.py *)

DECISION_PRIORITY(decision) ==
    CASE decision = "DoubleBuy" -> 4
      [] decision = "NormalBuy" -> 3
      [] decision = "Hold" -> 2
      [] decision = "StopBuy" -> 1

\* DECISION_PRIORITY.get(decision, 2)
decision_to_priority(decision) ==
    IF decision \in Decision THEN DECISION_PRIORITY(decision) ELSE 2

\* PRIORITY_TO_DECISION.get(priority, Hold)
priority_to_decision(priority) ==
    IF \E d \in Decision : DECISION_PRIORITY(d) = priority
    THEN CHOOSE d \in Decision : DECISION_PRIORITY(d) = priority
    ELSE "Hold"

\* _get_conservative_decision with the midpoint rounded down
get_conservative_decision_floor(d1, d2) ==
    LET p1 == decision_to_priority(d1)
        p2 == decision_to_priority(d2)
        diff == Abs(p1 - p2)
    IN  IF diff >= 2 THEN priority_to_decision((p1 + p2) \div 2)
        ELSE priority_to_decision(PyMax2(PyMin2(p1, p2), 2))

\* _get_conservative_decision with the midpoint written p1 + (p2 + 1) // 2
get_conservative_decision_precedence(d1, d2) ==
    LET p1 == decision_to_priority(d1)
        p2 == decision_to_priority(d2)
        diff == Abs(p1 - p2)
    IN  IF diff >= 2 THEN priority_to_decision(p1 + (p2 + 1) \div 2)
        ELSE priority_to_decision(PyMax2(PyMin2(p1, p2), 2))

get_conservative_decision(d1, d2) ==
    LET p1 == decision_to_priority(d1)
        p2 == decision_to_priority(d2)
        diff == Abs(p1 - p2)
    IN  IF diff >= 2 THEN priority_to_decision((p1 + p2 + 1) \div 2)
        ELSE priority_to_decision(PyMax2(PyMin2(p1, p2), 2))

SynthesizedDecision(sd, sc, ad, ac, fd, fc, consistent, method, cls, warnings) ==
    [strategy_decision |-> sd, strategy_confidence |-> sc,
     ai_decision |-> ad, ai_confidence |-> ac,
     final_decision |-> fd, final_confidence |-> fc,
     is_consistent |-> consistent, synthesis_method |-> method,
     asset_class |-> cls, warnings |-> warnings]

\* the degraded branch without the 0.8 discount
SynthesizeDegradedUndiscounted(sr, cls) ==
    SynthesizedDecision(
        sr.decision, sr.confidence, "unavailable", "low",
        sr.decision, score_to_confidence(sr.confidence),
        TRUE, "degraded_strategy_only", cls,
        Append(sr.warnings, "ai_unavailable"))

\* the branch of synthesize_decisions taken when ai_result is None (lines 115-133);
\* strategy_confidence * 0.8
SynthesizeDegraded(sr, cls) ==
    SynthesizedDecision(
        sr.decision, sr.confidence, "unavailable", "low",
        sr.decision, score_to_confidence((sr.confidence * 8) \div 10),
        TRUE, "degraded_strategy_only", cls,
        Append(sr.warnings, "ai_unavailable"))

\* the consistency bonus without the cap at 1.0
ConsistencyBonusUncapped(strategy_confidence, ai_confidence) ==
    (strategy_confidence + ai_confidence) \div 2 + 1000

\* line 149: min(1.0, strategy_confidence * 0.5 + ai_confidence * 0.5 + 0.1)
ConsistencyBonus(strategy_confidence, ai_confidence) ==
    PyMin2(10000, (strategy_confidence + ai_confidence) \div 2 + 1000)

\* the lead condition with ai_weight > 0.5 in place of ai_weight >= 0.5
AiLeadsStrictWeight(ai_confidence, strategy_confidence, ai_weight) ==
    ai_confidence > strategy_confidence /\ ai_weight > 5

\* line 170: ai_confidence > strategy_confidence and ai_weight >= 0.5
AiLeads(ai_confidence, strategy_confidence, ai_weight) ==
    ai_confidence > strategy_confidence /\ ai_weight >= 5

\* lines 135-181: the locals final_decision, combined_confidence,
\* synthesis_method and warnings when ai_result is present
SynthesisOutcome(sr, ai, cls) ==
    LET strategy_decision == sr.decision
        strategy_confidence == sr.confidence
        ai_decision == ai.decision
        ai_confidence == confidence_to_score(ai.confidence)
        ai_weight == get_thresholds(cls).ai_weight
        strategy_weight == 10 - ai_weight
        diff == Abs(decision_to_priority(strategy_decision)
                    - decision_to_priority(ai_decision))
        weighted == (ai_confidence * ai_weight
                     + strategy_confidence * strategy_weight) \div 10
    IN  IF strategy_decision = ai_decision THEN
            [final_decision |-> strategy_decision,
             combined_confidence |->
                 ConsistencyBonus(strategy_confidence, ai_confidence),
             synthesis_method |-> "consistency_bonus",
             warnings |-> sr.warnings]
        ELSE IF diff >= 2 THEN
            [final_decision |->
                 get_conservative_decision(strategy_decision, ai_decision),
             combined_confidence |-> 5000,
             synthesis_method |-> "divergence_conservative",
             warnings |-> Append(sr.warnings, "divergence")]
        ELSE IF AiLeads(ai_confidence, strategy_confidence, ai_weight) THEN
            [final_decision |-> ai_decision,
             combined_confidence |-> weighted,
             synthesis_method |-> "ai_led",
             warnings |-> sr.warnings]
        ELSE
            [final_decision |-> strategy_decision,
             combined_confidence |-> weighted,
             synthesis_method |-> "strategy_led",
             warnings |-> sr.warnings]

\* lines 183-197
SynthesizeMerge(sr, ai, cls) ==
    LET out == SynthesisOutcome(sr, ai, cls)
    IN  SynthesizedDecision(
            sr.decision, sr.confidence, ai.decision, ai.confidence,
            out.final_decision, score_to_confidence(out.combined_confidence),
            sr.decision = ai.decision, out.synthesis_method, cls, out.warnings)

\* strategy_result.warnings with line 109 binding the caller's list in place
\* of a copy: the appends of lines 116 and 165 reach the caller's object
CallerWarningsAliased(sr, ai, cls) ==
    IF ai = None THEN SynthesizeDegraded(sr, cls).warnings
    ELSE SynthesizeMerge(sr, Val(ai), cls).warnings

\* the caller's strategy_result.warnings after synthesize_decisions returned:
\* line 109 copies the list and every append goes to the copy
CallerWarnings(sr, ai, cls) == sr.warnings

synthesize_decisions(sr, ai, cls) ==
    IF ai = None THEN SynthesizeDegraded(sr, cls)
    ELSE SynthesizeMerge(sr, Val(ai), cls)

-----------------------------------------------------------------------------
(* Inputs *)

MaxLen == 3
MaxWarnings == 1

\* prices are multiples of 60, so that the mean of up to six entries is exact
PriceValues == {0, 60, 180}
CurrentValues == {0, 60, 120, 240}

RECURSIVE SeqsUpTo(_, _)
SeqsUpTo(S, n) ==
    IF n = 0 THEN {<<>>}
    ELSE LET shorter == SeqsUpTo(S, n - 1)
         IN  shorter \cup {Append(q, x) : q \in {r \in shorter : Len(r) = n - 1},
                                          x \in S}

Options(S) == {None} \cup {Some(x) : x \in S}

\* asset-class arguments: none, the six classes, an unknown string
ClassArgs == {NoClass, "UNKNOWN"} \cup AssetClass
ChainClasses == {NoClass, "GOLD_ETF", "BOND_ENHANCED", "UNKNOWN"}

\* daily change in hundredths of a percent
DailyChanges == Options({-1100, -700, -200, -30, 0, 700, 1100})
ChainChanges == Options({-1100, -30, 0})

MarketDrops == Options({-200, -300})
ChainDrops == Options({-300})

MidPercentiles ==
    {500, 1500, 2000, 2800, 4000, 5000, 6000, 7200, 8000, 8500, 9000, 9500}
SidePercentiles == {1000, 3800, 6200, 9500}
Deviations == {-600, -100, -50, 0, 200}
Volatilities == {300, 3160}

MetricsInputs ==
    {QuantMetrics(p60, p250, p500, 100, dev, 120, 80, 0, 0, vol, dc) :
        p60 \in SidePercentiles, p250 \in MidPercentiles, p500 \in SidePercentiles,
        dev \in Deviations, vol \in Volatilities, dc \in DailyChanges}

\* confidence of a StrategyResult, in 1/10000
StrategyConfidences ==
    {0, 3000, 5000, 5500, 6000, 6500, 7000, 7500, 8000, 8500, 9000, 9500, 10000}

StrategyInputs ==
    {StrategyResult(d, c, "fair", w) :
        d \in Decision, c \in StrategyConfidences,
        w \in SeqsUpTo({"w1", "w2"}, MaxWarnings)}

\* qualitative verdicts: the canonical labels and one malformed label of each kind
AiDecisionLabels == Decision \cup {"Buy"}
AiConfidenceLabels == {"high", "mid", "low", "85%"}
AiInputs ==
    Options({AIDecisionResult(d, c) : d \in AiDecisionLabels,
                                      c \in AiConfidenceLabels})
ChainAi ==
    Options({AIDecisionResult("DoubleBuy", "high"),
             AIDecisionResult("StopBuy", "low"),
             AIDecisionResult("Buy", "85%")})

\* arguments of the indicator functions called on their own
BandPercentiles == {0, 3000, 3500, 4000, 5000, 6000, 6500, 7000, 10000}
Bands == {<<4000, 6000>>, <<3500, 6500>>, <<3000, 7000>>, <<4500, 5500>>,
          <<5000, 5000>>}
PercentileCurrents == CurrentValues \cup PriceValues
VolatilityInputs == {v * 50 : v \in (0 - 4)..260}

\* the keyword classes of a fund name (see infer_asset_class)
FundNames == {"", "gold", "cycle", "enhanced"}

\* the functions that look a profile up: get_thresholds called directly, and
\* its five call sites
ThresholdsCallers ==
    {"get_thresholds", "evaluate_etf_strategy", "get_buy_multiplier",
     "detect_bond_signal", "evaluate_bond_strategy", "synthesize_decisions"}

\* the string a caller hands to get_thresholds for its own asset_class
\* argument
ThresholdsArgument(caller, asset_class_arg, fund_name) ==
    CASE caller = "evaluate_etf_strategy" ->
           IF asset_class_arg = NoClass
           THEN infer_asset_class("ETF_Feeder", fund_name)
           ELSE asset_class_arg
      [] caller = "evaluate_bond_strategy" ->
           IF asset_class_arg = NoClass
           THEN infer_asset_class("Bond", fund_name)
           ELSE asset_class_arg
      [] caller = "get_buy_multiplier" ->
           IF asset_class_arg = NoClass THEN "DEFAULT_ETF" ELSE asset_class_arg
      [] caller = "detect_bond_signal" ->
           IF asset_class_arg = NoClass THEN "DEFAULT_BOND" ELSE asset_class_arg
      [] OTHER -> asset_class_arg

-----------------------------------------------------------------------------
(* Operations *)

\* calculate_all_metrics(current_price, prices_history, daily_change)
CalcMetrics(changes) ==
    /\ pc = "start"
    /\ \E dc \in changes :
         LET m == calculate_all_metrics(current_price, prices_history, dc)
         IN  IF MetricsException(m) /= ""
             THEN /\ raised' = MetricsException(m)
                  /\ metrics' = None
                  /\ pc' = "raised"
             ELSE /\ raised' = raised
                  /\ metrics' = Some(m)
                  /\ pc' = "metrics"
    /\ UNCHANGED <<registry, decision_log,
                   current_price, prices_history, asset_class, market_drop,
                   strategy_result, ai_result, synthesized, combined_confidence,
                   signal, args, result>>

\* evaluate_etf_strategy(metrics, asset_class, "", market_drop)
EvalEtf(classes, drops) ==
    /\ pc = "metrics"
    /\ \E cls \in classes, md \in drops :
         LET r == evaluate_etf_strategy(Val(metrics), cls, "", md)
         IN  /\ asset_class' = cls
             /\ market_drop' = md
             /\ IF StrategyException(r) /= ""
                THEN /\ raised' = StrategyException(r)
                     /\ strategy_result' = None
                     /\ pc' = "raised"
                ELSE /\ raised' = raised
                     /\ strategy_result' = Some(r)
                     /\ pc' = "etf_evaluated"
    /\ UNCHANGED <<registry, decision_log,
                   current_price, prices_history, metrics, ai_result, synthesized,
                   combined_confidence, signal, args, result>>

\* evaluate_bond_strategy(metrics, asset_class, "")
EvalBond(classes) ==
    /\ pc = "metrics"
    /\ \E cls \in classes :
         LET r == evaluate_bond_strategy(Val(metrics), cls, "")
         IN  /\ asset_class' = cls
             /\ signal' = BondSignalOf(Val(metrics), cls, "")
             /\ IF StrategyException(r) /= ""
                THEN /\ raised' = StrategyException(r)
                     /\ strategy_result' = None
                     /\ pc' = "raised"
                ELSE /\ raised' = raised
                     /\ strategy_result' = Some(r)
                     /\ pc' = "bond_evaluated"
    /\ UNCHANGED <<registry, decision_log,
                   current_price, prices_history, metrics, market_drop, ai_result,
                   synthesized, combined_confidence, args, result>>

\* synthesize_decisions(strategy_result, ai_result, asset_class), called at any
\* of the given positions; strategy_result is the caller's object after the
\* call
SynthesizeAt(positions, verdicts) ==
    /\ pc \in positions
    /\ \E ai \in verdicts :
         /\ ai_result' = ai
         /\ strategy_result' =
                Some([Val(strategy_result) EXCEPT
                          !.warnings = CallerWarnings(Val(strategy_result), ai,
                                                      asset_class)])
         /\ synthesized' = Some(synthesize_decisions(Val(strategy_result), ai,
                                                     asset_class))
         /\ combined_confidence' =
                IF ai = None THEN None
                ELSE Some(SynthesisOutcome(Val(strategy_result), Val(ai),
                                           asset_class).combined_confidence)
    /\ pc' = "synthesized"
    /\ UNCHANGED <<registry, decision_log,
                   current_price, prices_history, metrics, asset_class,
                   market_drop, raised, signal, args, result>>

\* the first synthesis after an evaluator returned
Synthesize(verdicts) ==
    SynthesizeAt({"etf_evaluated", "bond_evaluated"}, verdicts)

\* get_percentile_consensus(metrics, low_threshold, high_threshold)
CallGetPercentileConsensus ==
    /\ pc = "idle"
    /\ \E p60 \in BandPercentiles, p250 \in BandPercentiles,
          p500 \in BandPercentiles, band \in Bands :
         LET m == QuantMetrics(p60, p250, p500, 0, 0, 0, 0, 0, 0, 0, None)
         IN  /\ args' = Some([fn |-> "get_percentile_consensus",
                              a |-> <<p60, p250, p500, band[1], band[2]>>])
             /\ result' = Some(get_percentile_consensus(m, band[1], band[2]))
    /\ pc' = "returned"
    /\ UNCHANGED <<registry, decision_log,
                   current_price, prices_history, metrics, asset_class,
                   market_drop, strategy_result, ai_result, synthesized,
                   combined_confidence, raised, signal>>

\* calculate_percentile(current_price, prices)
CallCalculatePercentile ==
    /\ pc = "idle"
    /\ \E current \in PercentileCurrents,
          prices \in SeqsUpTo(PriceValues, MaxLen) :
         LET percentile == calculate_percentile(current, prices)
         IN  /\ args' = Some([fn |-> "calculate_percentile",
                              a |-> <<current, prices>>])
             /\ IF Raised(percentile)
                THEN /\ raised' = "ZeroDivisionError"
                     /\ result' = None
                     /\ pc' = "raised"
                ELSE /\ raised' = raised
                     /\ result' = Some(percentile)
                     /\ pc' = "returned"
    /\ UNCHANGED <<registry, decision_log,
                   current_price, prices_history, metrics, asset_class,
                   market_drop, strategy_result, ai_result, synthesized,
                   combined_confidence, signal>>

\* get_dynamic_ma_threshold(volatility)
CallGetDynamicMaThreshold ==
    /\ pc = "idle"
    /\ \E volatility \in VolatilityInputs :
         /\ args' = Some([fn |-> "get_dynamic_ma_threshold",
                          a |-> <<volatility>>])
         /\ result' = Some(get_dynamic_ma_threshold(volatility))
    /\ pc' = "returned"
    /\ UNCHANGED <<registry, decision_log,
                   current_price, prices_history, metrics, asset_class,
                   market_drop, strategy_result, ai_result, synthesized,
                   combined_confidence, raised, signal>>

\* get_dynamic_drop_threshold(volatility)
CallGetDynamicDropThreshold ==
    /\ pc = "idle"
    /\ \E volatility \in VolatilityInputs :
         /\ args' = Some([fn |-> "get_dynamic_drop_threshold",
                          a |-> <<volatility>>])
         /\ result' = Some(get_dynamic_drop_threshold(volatility))
    /\ pc' = "returned"
    /\ UNCHANGED <<registry, decision_log,
                   current_price, prices_history, metrics, asset_class,
                   market_drop, strategy_result, ai_result, synthesized,
                   combined_confidence, raised, signal>>

\* get_thresholds(asset_class), called directly or from one of its call sites;
\* args.a is (caller, the caller's asset_class, the fund name, the string
\* handed to get_thresholds)
CallGetThresholds ==
    /\ pc = "idle"
    /\ \E caller \in ThresholdsCallers, cls \in ClassArgs, name \in FundNames :
         LET argument == ThresholdsArgument(caller, cls, name)
         IN  /\ args' = Some([fn |-> "get_thresholds",
                              a |-> <<caller, cls, name, argument>>])
             /\ result' = Some(get_thresholds(argument))
    /\ pc' = "returned"
    /\ UNCHANGED <<registry, decision_log,
                   current_price, prices_history, metrics, asset_class,
                   market_drop, strategy_result, ai_result, synthesized,
                   combined_confidence, raised, signal>>

-----------------------------------------------------------------------------
(* The evaluation chain of one instrument:                                 *)
(* calculate_all_metrics -> evaluate_*_strategy -> synthesize_decisions    *)

Init ==
    /\ pc = "start"
    /\ current_price \in CurrentValues
    /\ prices_history \in SeqsUpTo(PriceValues, MaxLen)
    /\ metrics = None
    /\ asset_class = NoClass
    /\ market_drop = None
    /\ strategy_result = None
    /\ ai_result = None
    /\ synthesized = None
    /\ combined_confidence = None
    /\ raised = ""
    /\ signal = None
    /\ args = None
    /\ result = None
    /\ registry = [ac \in AssetClass |-> ASSET_THRESHOLDS(ac)]
    /\ decision_log = <<>>

CalculateAllMetrics == CalcMetrics(ChainChanges)
ChainEvaluateEtf == EvalEtf(ChainClasses, ChainDrops)
ChainEvaluateBond == EvalBond(ChainClasses)
ChainSynthesize == Synthesize(ChainAi)
ChainSynthesizeAgain == SynthesizeAt({"synthesized"}, ChainAi)

Next ==
    \/ CalculateAllMetrics
    \/ ChainEvaluateEtf
    \/ ChainEvaluateBond
    \/ ChainSynthesize
    \/ ChainSynthesizeAgain

Spec == Init /\ [][Next]_vars

(* The strategy evaluators applied to any metrics bundle *)

InitStrategy ==
    /\ pc = "metrics"
    /\ current_price = 100
    /\ prices_history = <<>>
    /\ metrics \in {Some(m) : m \in MetricsInputs}
    /\ asset_class = NoClass
    /\ market_drop = None
    /\ strategy_result = None
    /\ ai_result = None
    /\ synthesized = None
    /\ combined_confidence = None
    /\ raised = ""
    /\ signal = None
    /\ args = None
    /\ result = None
    /\ registry = [ac \in AssetClass |-> ASSET_THRESHOLDS(ac)]
    /\ decision_log = <<>>

EvaluateEtfStrategy == EvalEtf(ClassArgs, MarketDrops)
EvaluateBondStrategy == EvalBond(ClassArgs)

NextStrategy == EvaluateEtfStrategy \/ EvaluateBondStrategy

SpecStrategy == InitStrategy /\ [][NextStrategy]_vars

(* The synthesizer applied to any quantitative and qualitative verdict *)

InitSynth ==
    /\ pc = "etf_evaluated"
    /\ current_price = 100
    /\ prices_history = <<>>
    /\ metrics = None
    /\ asset_class \in ClassArgs
    /\ market_drop = None
    /\ strategy_result \in {Some(r) : r \in StrategyInputs}
    /\ ai_result = None
    /\ synthesized = None
    /\ combined_confidence = None
    /\ raised = ""
    /\ signal = None
    /\ args = None
    /\ result = None
    /\ registry = [ac \in AssetClass |-> ASSET_THRESHOLDS(ac)]
    /\ decision_log = <<>>

SynthesizeDecisions == Synthesize(AiInputs)

NextSynth == SynthesizeDecisions

SpecSynth == InitSynth /\ [][NextSynth]_vars

(* The indicator functions called on their own *)

InitIndicators ==
    /\ pc = "idle"
    /\ current_price = 100
    /\ prices_history = <<>>
    /\ metrics = None
    /\ asset_class = NoClass
    /\ market_drop = None
    /\ strategy_result = None
    /\ ai_result = None
    /\ synthesized = None
    /\ combined_confidence = None
    /\ raised = ""
    /\ signal = None
    /\ args = None
    /\ result = None
    /\ registry = [ac \in AssetClass |-> ASSET_THRESHOLDS(ac)]
    /\ decision_log = <<>>

NextIndicators ==
    \/ CallGetPercentileConsensus
    \/ CallCalculatePercentile
    \/ CallGetDynamicMaThreshold
    \/ CallGetDynamicDropThreshold
    \/ CallGetThresholds

SpecIndicators == InitIndicators /\ [][NextIndicators]_vars

(* Two evaluations of the growth evaluator under one class *)

PairClasses == {"GOLD_ETF", "COMMODITY_CYCLE", "DEFAULT_ETF"}
PairPercentiles ==
    {500, 1000, 1500, 2000, 3500, 4000, 5000, 6000, 7500, 8000, 9000, 9500}
PairMetrics ==
    {QuantMetrics(p60, p250, p500, 100, dev, 120, 80, 0, 0, 300, dc) :
        p60 \in {1000, 9500}, p250 \in PairPercentiles, p500 \in {1000, 9500},
        dev \in {-600, 0}, dc \in Options({-1100})}

\* evaluate_etf_strategy(metrics, asset_class, "", market_drop): the first of
\* two calls; args and result keep its arguments and its StrategyResult
EvaluateEtfFirst ==
    /\ pc = "pair"
    /\ \E m \in PairMetrics, cls \in PairClasses, md \in ChainDrops :
         /\ asset_class' = cls
         /\ args' = Some([fn |-> "evaluate_etf_strategy", a |-> <<m, cls, md>>])
         /\ result' = Some(evaluate_etf_strategy(m, cls, "", md))
    /\ pc' = "first_evaluated"
    /\ UNCHANGED <<registry, decision_log, current_price, prices_history,
                   metrics, market_drop, strategy_result, ai_result, synthesized,
                   combined_confidence, raised, signal>>

\* the second call, under the class of the first
EvaluateEtfSecond ==
    /\ pc = "first_evaluated"
    /\ \E m \in PairMetrics, md \in ChainDrops :
         /\ metrics' = Some(m)
         /\ market_drop' = md
         /\ strategy_result' = Some(evaluate_etf_strategy(m, asset_class, "", md))
    /\ pc' = "second_evaluated"
    /\ UNCHANGED <<registry, decision_log, current_price, prices_history,
                   asset_class, ai_result, synthesized, combined_confidence,
                   raised, signal, args, result>>

InitPair ==
    /\ pc = "pair"
    /\ current_price = 100
    /\ prices_history = <<>>
    /\ metrics = None
    /\ asset_class = NoClass
    /\ market_drop = None
    /\ strategy_result = None
    /\ ai_result = None
    /\ synthesized = None
    /\ combined_confidence = None
    /\ raised = ""
    /\ signal = None
    /\ args = None
    /\ result = None
    /\ registry = [ac \in AssetClass |-> ASSET_THRESHOLDS(ac)]
    /\ decision_log = <<>>

NextPair == EvaluateEtfFirst \/ EvaluateEtfSecond

SpecPair == InitPair /\ [][NextPair]_vars

-----------------------------------------------------------------------------
(* ai/decision_parser.py and scheduler/jobs.py: the pipeline of one fund *)

\* the list VALID_DECISIONS, in its order
VALID_DECISIONS == <<"DoubleBuy", "NormalBuy", "StopBuy", "Hold">>

ParsedDecision(decision, is_valid) ==
    [decision |-> decision, is_valid |-> is_valid]

\* a reply is modelled by the set of decision labels its text contains; None is
\* an absent or empty reply
parse_ai_decision(response) ==
    IF response = None THEN ParsedDecision("Hold", FALSE)
    ELSE LET hits == {i \in 1..Len(VALID_DECISIONS) :
                          VALID_DECISIONS[i] \in Val(response)}
             first == CHOOSE i \in hits : \A j \in hits : i <= j
             decision == IF hits = {} THEN "Hold" ELSE VALID_DECISIONS[first]
         IN  ParsedDecision(decision,
                            \E i \in 1..Len(VALID_DECISIONS) :
                                VALID_DECISIONS[i] = decision)

FundReport(decision, zone) == [decision |-> decision, zone |-> zone]

FundResult(success, report, error) ==
    [success |-> success, report |-> report, error |-> error]

\* what the advisory step of process_single_fund can meet
AiResponses == Options(SUBSET Decision)
AiOutcomes ==
    {[kind |-> "client_raised", response |-> None],
     [kind |-> "request_raised", response |-> None]}
    \cup {[kind |-> "replied", response |-> r] : r \in AiResponses}

FundTypes == {"ETF_Feeder", "Bond"}

\* steps 1-2: fetch_fund_valuation and get_fund_history
FetchFundData ==
    /\ pc = "fund"
    /\ \E valuation \in BOOLEAN, fund_type \in FundTypes :
         /\ args' = Some([fn |-> "process_single_fund", a |-> <<fund_type>>])
         /\ IF ~valuation
            THEN /\ result' = Some(FundResult(FALSE, None, "no_valuation"))
                 /\ pc' = "failed"
            ELSE IF prices_history = <<>>
            THEN /\ result' = Some(FundResult(FALSE, None, "no_history"))
                 /\ pc' = "failed"
            ELSE /\ result' = result
                 /\ pc' = "fetched"
    /\ UNCHANGED <<registry, decision_log, current_price, prices_history,
                   metrics, asset_class, market_drop, strategy_result, ai_result,
                   synthesized, combined_confidence, raised, signal>>

\* step 3: calculate_all_metrics on the fetched valuation and history
PipelineCalculateMetrics ==
    /\ pc = "fetched"
    /\ \E estimate_change \in ChainChanges :
         LET m == calculate_all_metrics(current_price, prices_history,
                                        estimate_change)
         IN  IF MetricsException(m) /= ""
             THEN /\ metrics' = None
                  /\ result' = Some(FundResult(FALSE, None, MetricsException(m)))
                  /\ pc' = "failed"
             ELSE /\ metrics' = Some(m)
                  /\ result' = result
                  /\ pc' = "pipeline_metrics"
    /\ UNCHANGED <<registry, decision_log, current_price, prices_history,
                   asset_class, market_drop, strategy_result, ai_result,
                   synthesized, combined_confidence, raised, signal, args>>

\* step 6: evaluate_etf_strategy(metrics) or evaluate_bond_strategy(metrics)
PipelineEvaluateStrategy ==
    /\ pc = "pipeline_metrics"
    /\ LET r == IF Val(args).a[1] = "ETF_Feeder"
                THEN evaluate_etf_strategy(Val(metrics), NoClass, "", None)
                ELSE evaluate_bond_strategy(Val(metrics), NoClass, "")
       IN  IF StrategyException(r) /= ""
           THEN /\ strategy_result' = None
                /\ result' = Some(FundResult(FALSE, None, StrategyException(r)))
                /\ pc' = "failed"
           ELSE /\ strategy_result' = Some(r)
                /\ result' = result
                /\ pc' = "pipeline_strategy"
    /\ UNCHANGED <<registry, decision_log, current_price, prices_history,
                   metrics, asset_class, market_drop, ai_result, synthesized,
                   combined_confidence, raised, signal, args>>

\* step 7: the advisory call; ai_result holds the locals ai_decision and
\* whether context_json was bound
PipelineAiDecision ==
    /\ pc = "pipeline_strategy"
    /\ \E outcome \in AiOutcomes :
         LET parsed == parse_ai_decision(outcome.response)
             ai_decision ==
                 IF outcome.kind /= "replied"
                 THEN Some(Val(strategy_result).decision)
                 ELSE IF outcome.response /= None /\ parsed.is_valid
                 THEN Some(parsed.decision)
                 ELSE None
         IN  ai_result' = Some([ai_decision |-> ai_decision,
                                context_json |-> outcome.kind /= "client_raised"])
    /\ pc' = "pipeline_ai"
    /\ UNCHANGED <<registry, decision_log, current_price, prices_history,
                   metrics, asset_class, market_drop, strategy_result,
                   synthesized, combined_confidence, raised, signal, args,
                   result>>

\* final_decision and steps 8-10: the report and the decision log row; an
\* unbound context_json raises at save_decision_log and the outer handler
\* returns a failure
PipelineReportAndLog ==
    /\ pc = "pipeline_ai"
    /\ LET ai_decision == Val(ai_result).ai_decision
           final_decision == IF ai_decision /= None THEN Val(ai_decision)
                             ELSE Val(strategy_result).decision
           report == FundReport(final_decision, Val(strategy_result).zone)
       IN  IF ~Val(ai_result).context_json
           THEN /\ decision_log' = decision_log
                /\ result' = Some(FundResult(FALSE, None, "UnboundLocalError"))
                /\ pc' = "failed"
           ELSE /\ decision_log' =
                       Append(decision_log, [ai_decision |-> final_decision])
                /\ result' = Some(FundResult(TRUE, Some(report), ""))
                /\ pc' = "processed"
    /\ UNCHANGED <<registry, current_price, prices_history, metrics,
                   asset_class, market_drop, strategy_result, ai_result,
                   synthesized, combined_confidence, raised, signal, args>>

\* a collaborator (holdings, market context, chart, database) raises and the
\* outer handler returns a failure
PipelineCollaboratorRaises ==
    /\ pc \in {"fetched", "pipeline_metrics", "pipeline_strategy", "pipeline_ai"}
    /\ result' = Some(FundResult(FALSE, None, "Exception"))
    /\ pc' = "failed"
    /\ UNCHANGED <<registry, decision_log, current_price, prices_history,
                   metrics, asset_class, market_drop, strategy_result, ai_result,
                   synthesized, combined_confidence, raised, signal, args>>

InitPipeline ==
    /\ pc = "fund"
    /\ current_price \in CurrentValues
    /\ prices_history \in SeqsUpTo(PriceValues, MaxLen)
    /\ metrics = None
    /\ asset_class = NoClass
    /\ market_drop = None
    /\ strategy_result = None
    /\ ai_result = None
    /\ synthesized = None
    /\ combined_confidence = None
    /\ raised = ""
    /\ signal = None
    /\ args = None
    /\ result = None
    /\ registry = [ac \in AssetClass |-> ASSET_THRESHOLDS(ac)]
    /\ decision_log = <<>>

NextPipeline ==
    \/ FetchFundData
    \/ PipelineCalculateMetrics
    \/ PipelineEvaluateStrategy
    \/ PipelineAiDecision
    \/ PipelineReportAndLog
    \/ PipelineCollaboratorRaises

SpecPipeline == InitPipeline /\ [][NextPipeline]_vars

-----------------------------------------------------------------------------
(* Properties of the synthesizer (SpecSynth) *)

ConfidenceRank(label) ==
    CASE label = "high" -> 3
      [] label = "mid" -> 2
      [] label = "low" -> 1

\* the qualitative verdict carries a canonical decision and confidence label
CanonicalVerdict ==
    /\ ai_result /= None
    /\ Val(ai_result).decision \in Decision
    /\ Val(ai_result).confidence \in {"high", "mid", "low"}

\* distance between the priorities of the two canonical decision labels
PriorityGap ==
    Abs(DECISION_PRIORITY(Val(strategy_result).decision)
        - DECISION_PRIORITY(Val(ai_result).decision))

(* C1: for any quantitative verdict and any qualitative verdict - absent, or *)
(* present with any decision label - the final_decision returned by          *)
(* synthesize_decisions is one of the four canonical labels.                 *)
C1_FinalDecisionCanonical ==
    pc = "synthesized" => Val(synthesized).final_decision \in Decision

(* C4: with no qualitative verdict the final decision is the strategy's      *)
(* decision, the final confidence is the label of 0.8 times the strategy's   *)
(* confidence (never ranked above the label of the undiscounted confidence), *)
(* the method is the degraded one, and the warnings are the strategy's       *)
(* warnings, in order, followed by exactly one added warning.                *)
C4_DegradedMode ==
    (pc = "synthesized" /\ ai_result = None) =>
        LET sr == Val(strategy_result)
            out == Val(synthesized)
            undiscounted == IF sr.confidence >= 7500 THEN "high"
                            ELSE IF sr.confidence >= 4500 THEN "mid" ELSE "low"
        IN  /\ out.final_decision = sr.decision
            /\ out.final_confidence =
                   (IF sr.confidence * 8 >= 75000 THEN "high"
                    ELSE IF sr.confidence * 8 >= 45000 THEN "mid" ELSE "low")
            /\ ConfidenceRank(out.final_confidence) <= ConfidenceRank(undiscounted)
            /\ out.synthesis_method = "degraded_strategy_only"
            /\ Len(out.warnings) = Len(sr.warnings) + 1
            /\ SubSeq(out.warnings, 1, Len(sr.warnings)) = sr.warnings
            /\ out.warnings[Len(out.warnings)] = "ai_unavailable"

\* a degraded synthesis whose discount lowers the confidence label, with a
\* strategy warning carried over
C4_Witness ==
    /\ pc = "synthesized"
    /\ ai_result = None
    /\ Val(strategy_result).confidence = 9000
    /\ Val(strategy_result).warnings /= <<>>
    /\ Val(synthesized).final_confidence = "mid"

(* C5: a qualitative verdict whose decision label is not canonical, or whose *)
(* confidence label is not one of high / mid / low, is treated exactly like  *)
(* an absent verdict: strategy decision, degraded method, discounted         *)
(* confidence, one added warning.                                            *)
C5_MalformedDegrades ==
    (pc = "synthesized" /\ ai_result /= None /\ ~CanonicalVerdict) =>
        LET sr == Val(strategy_result)
            out == Val(synthesized)
        IN  /\ out.final_decision = sr.decision
            /\ out.final_confidence =
                   (IF sr.confidence * 8 >= 75000 THEN "high"
                    ELSE IF sr.confidence * 8 >= 45000 THEN "mid" ELSE "low")
            /\ out.synthesis_method = "degraded_strategy_only"
            /\ out.warnings = Append(sr.warnings, "ai_unavailable")

C7_MildDivergence ==
    (pc = "synthesized" /\ CanonicalVerdict /\ PriorityGap = 1) =>
        LET sr == Val(strategy_result)
            ai == Val(ai_result)
            out == Val(synthesized)
            w == get_thresholds(asset_class).ai_weight
            ac == confidence_to_score(ai.confidence)
        IN  /\ out.final_decision =
                   (IF ac > sr.confidence /\ w >= 5 THEN ai.decision
                    ELSE sr.decision)
            /\ Val(combined_confidence) * 10 = ac * w + sr.confidence * (10 - w)
            /\ out.warnings = sr.warnings
            /\ (asset_class \in {"BOND_ENHANCED", "BOND_PURE", "DEFAULT_BOND"}
                  => w < 5 /\ out.final_decision = sr.decision)

\* the qualitative verdict leads at the weight 0.5 of DEFAULT_ETF
C7_Witness ==
    /\ pc = "synthesized"
    /\ CanonicalVerdict
    /\ PriorityGap = 1
    /\ asset_class = "DEFAULT_ETF"
    /\ Val(synthesized).final_decision = Val(ai_result).decision
    /\ Val(synthesized).synthesis_method = "ai_led"

-----------------------------------------------------------------------------
(* Properties of the strategy evaluators (SpecStrategy) *)

\* the class whose thresholds the evaluator that ran used
EffectiveClass ==
    IF asset_class /= NoClass THEN asset_class
    ELSE infer_asset_class(IF pc = "bond_evaluated" THEN "Bond" ELSE "ETF_Feeder",
                           "")

\* the daily change is outside the limit the evaluator that ran checks:
\* evaluate_etf_strategy checks the class's drop and rise limits,
\* evaluate_bond_strategy the class's drop limit
BreakerTripped ==
    LET dc == Val(metrics).daily_change
        limits == get_thresholds(EffectiveClass)
    IN  /\ dc /= None
        /\ \/ Val(dc) < limits.circuit_breaker_drop
           \/ pc = "etf_evaluated" /\ Val(dc) > limits.circuit_breaker_rise

(* C3: in either evaluator a tripped circuit breaker short-circuits every    *)
(* other rule - Hold, confidence exactly 0.3, zone halted, exactly one       *)
(* warning - whatever the percentiles, consensus or trend; and a result has  *)
(* zone halted or confidence 0.3 only when the breaker tripped, never when   *)
(* the daily change is absent.                                               *)
C3_BreakerShortCircuits ==
    pc \in {"etf_evaluated", "bond_evaluated"} =>
        LET r == Val(strategy_result)
        IN  /\ BreakerTripped =>
                   /\ r.decision = "Hold"
                   /\ r.confidence = 3000
                   /\ r.zone = "halted"
                   /\ Len(r.warnings) = 1
            /\ (r.zone = "halted" \/ r.confidence = 3000) =>
                   /\ BreakerTripped
                   /\ Val(metrics).daily_change /= None

\* the rise limit trips the breaker although all three percentiles are deep in
\* the undervalued range
C3_Witness ==
    /\ pc = "etf_evaluated"
    /\ BreakerTripped
    /\ Val(Val(metrics).daily_change) > 0
    /\ percentile_consensus(Val(metrics)) = "strong_low"
    /\ Val(metrics).percentile_250 = 500
    /\ Val(strategy_result).zone = "halted"

(* C9: in evaluate_etf_strategy, with no breaker, a 250-day percentile at or *)
(* above the class's fourth zone boundary gives StopBuy for every class      *)
(* other than GOLD_ETF; for GOLD_ETF the verdict is never StopBuy: it is     *)
(* NormalBuy iff a broad-market move is supplied and is below -2.0, else     *)
(* Hold.                                                                     *)
C9_OvervaluedZone ==
    pc = "etf_evaluated" =>
        LET r == Val(strategy_result)
            zones == get_thresholds(EffectiveClass).zone_thresholds
        IN  /\ (~BreakerTripped /\ Val(metrics).percentile_250 >= zones[4]) =>
                   IF EffectiveClass = "GOLD_ETF"
                   THEN r.decision =
                            (IF market_drop /= None /\ Val(market_drop) < -200
                             THEN "NormalBuy" ELSE "Hold")
                   ELSE r.decision = "StopBuy"
            /\ EffectiveClass = "GOLD_ETF" => r.decision /= "StopBuy"

\* GOLD_ETF on its fourth boundary with a broad-market move of exactly -2.0
C9_Witness ==
    /\ pc = "etf_evaluated"
    /\ asset_class = "GOLD_ETF"
    /\ ~BreakerTripped
    /\ Val(metrics).percentile_250 = 8500
    /\ market_drop = Some(-200)
    /\ Val(strategy_result).decision = "Hold"

(* C10: in evaluate_etf_strategy, with no breaker, a 250-day percentile      *)
(* below the class's first zone boundary gives DoubleBuy iff the bundle's    *)
(* consensus is weak-undervalued (confidence 0.75) or strong-undervalued     *)
(* (0.9); otherwise NormalBuy at confidence 0.6 with a warning that the      *)
(* windows disagree.                                                         *)
C10_GoldenPit ==
    (pc = "etf_evaluated" /\ ~BreakerTripped
        /\ Val(metrics).percentile_250
             < get_thresholds(EffectiveClass).zone_thresholds[1]) =>
        LET r == Val(strategy_result)
            consensus == percentile_consensus(Val(metrics))
        IN  /\ r.decision = "DoubleBuy" <=> consensus \in {"weak_low", "strong_low"}
            /\ consensus = "strong_low" => r.confidence = 9000
            /\ consensus = "weak_low" => r.confidence = 7500
            /\ consensus \notin {"weak_low", "strong_low"} =>
                   /\ r.decision = "NormalBuy"
                   /\ r.confidence = 6000
                   /\ \E i \in 1..Len(r.warnings) : r.warnings[i] = "golden_pit_doubt"

\* golden pit confirmed by one other window only
C10_Witness ==
    /\ pc = "etf_evaluated"
    /\ ~BreakerTripped
    /\ Val(metrics).percentile_250
         < get_thresholds(EffectiveClass).zone_thresholds[1]
    /\ percentile_consensus(Val(metrics)) = "weak_low"
    /\ Val(strategy_result).decision = "DoubleBuy"
    /\ Val(strategy_result).confidence = 7500

(* C11: in evaluate_etf_strategy, with no breaker, a 250-day percentile in   *)
(* the fair zone (second boundary <= percentile < third boundary) gives Hold *)
(* iff the moving-average deviation is >= 0; every negative deviation gives  *)
(* NormalBuy, at confidence 0.65 when the deviation is below the comparison  *)
(* threshold and at the lower confidence 0.55 otherwise; the consensus does  *)
(* not enter.                                                                *)
C11_FairZone ==
    LET zones == get_thresholds(EffectiveClass).zone_thresholds
        m == Val(metrics)
        r == Val(strategy_result)
        threshold == PyMin2(get_dynamic_ma_threshold(m.volatility_60),
                            get_thresholds(EffectiveClass).ma_base_threshold)
    IN  (pc = "etf_evaluated" /\ ~BreakerTripped
            /\ zones[2] <= m.percentile_250 /\ m.percentile_250 < zones[3]) =>
            /\ r.decision = "Hold" <=> m.ma_deviation >= 0
            /\ m.ma_deviation < 0 => r.decision = "NormalBuy"
            /\ r.confidence =
                   (IF m.ma_deviation >= 0 THEN 5000
                    ELSE IF m.ma_deviation < threshold THEN 6500 ELSE 5500)

\* the lower boundary of the fair zone with a deviation of exactly zero: Hold,
\* although the consensus is weak-undervalued
C11_Witness ==
    /\ pc = "etf_evaluated"
    /\ ~BreakerTripped
    /\ asset_class = "DEFAULT_ETF"
    /\ Val(metrics).percentile_250 = 4000
    /\ Val(metrics).ma_deviation = 0
    /\ percentile_consensus(Val(metrics)) = "weak_low"
    /\ Val(strategy_result).decision = "Hold"
    /\ Val(strategy_result).confidence = 5000

\* the bundle's consensus is weak- or strong-undervalued
UndervaluedConsensus ==
    percentile_consensus(Val(metrics)) \in {"weak_low", "strong_low"}

(* C12: evaluate_bond_strategy returns the halted result - Hold, confidence  *)
(* 0.3, zone halted - both when the daily change is below the class's        *)
(* circuit_breaker_drop and when it is above the class's                     *)
(* circuit_breaker_rise.                                                     *)
C12_BondBreakerBothSides ==
    LET dc == Val(metrics).daily_change
        limits == get_thresholds(EffectiveClass)
        r == Val(strategy_result)
    IN  (pc = "bond_evaluated" /\ dc /= None
            /\ (Val(dc) < limits.circuit_breaker_drop
                \/ Val(dc) > limits.circuit_breaker_rise)) =>
            /\ r.decision = "Hold"
            /\ r.confidence = 3000
            /\ r.zone = "halted"

(* C13: detect_bond_signal marks the instrument overvalued exactly when the  *)
(* 250-day percentile is above 90: true for every percentile_250 > 90, false *)
(* for every percentile_250 <= 90.                                           *)
C13_OvervaluedAbove90 ==
    (pc = "bond_evaluated" /\ signal /= None) =>
        (Val(signal).is_overvalued <=> Val(metrics).percentile_250 > 9000)

C16_BondOpportunity ==
    (pc = "bond_evaluated" /\ signal /= None /\ ~Val(signal).is_overvalued
        /\ Val(signal).has_opportunity) =>
        LET r == Val(strategy_result)
            plain == IF r.decision = "DoubleBuy" THEN 8000 ELSE 7000
        IN  /\ r.decision = "DoubleBuy" <=> Val(signal).strength > 7000
            /\ r.decision /= "DoubleBuy" => r.decision = "NormalBuy"
            /\ IF UndervaluedConsensus THEN r.confidence > plain
               ELSE r.confidence = plain

-----------------------------------------------------------------------------
(* Properties of the evaluation chain (Spec) *)

(* C2: for any history length (empty, one entry, constant, containing        *)
(* zeros) and any current valuation, the chain calculate_all_metrics ->      *)
(* evaluate_etf_strategy / evaluate_bond_strategy -> synthesize_decisions    *)
(* never ends in an exception: every step completes, no step reaches a zero  *)
(* denominator or an empty-collection error, and the chain yields a          *)
(* SynthesizedDecision.                                                      *)
C2_ChainNeverRaises ==
    /\ raised = ""
    /\ pc /= "raised"
    /\ pc /= "start" =>
           metrics /= None /\ MetricsException(Val(metrics)) = ""
    /\ pc \in {"etf_evaluated", "bond_evaluated", "synthesized"} =>
           strategy_result /= None /\ StrategyException(Val(strategy_result)) = ""
    /\ pc = "synthesized" => synthesized /= None

\* the chain completed on a history of zeros with a current valuation of zero
C2_Witness ==
    /\ pc = "synthesized"
    /\ Len(prices_history) >= 2
    /\ \A i \in 1..Len(prices_history) : prices_history[i] = 0
    /\ current_price = 0

-----------------------------------------------------------------------------
(* Properties of the indicator functions (SpecIndicators) *)

\* the call that returned is a call of fn
Returned(fn) == pc = "returned" /\ Val(args).fn = fn

(* C17: for every bundle and every band pair, get_percentile_consensus       *)
(* returns strong-undervalued iff all three percentiles are strictly below   *)
(* the low band, strong-overvalued iff all three are strictly above the high *)
(* band, weak-undervalued / weak-overvalued when exactly two are below /     *)
(* above, and split otherwise.                                               *)
C17_Consensus ==
    Returned("get_percentile_consensus") =>
        LET a == Val(args).a
            below == Cardinality({i \in 1..3 : a[i] < a[4]})
            above == Cardinality({i \in 1..3 : a[i] > a[5]})
        IN  /\ Val(result) = "strong_low" <=> below = 3
            /\ Val(result) = "strong_high" <=> above = 3
            /\ below = 2 => Val(result) = "weak_low"
            /\ above = 2 => Val(result) = "weak_high"
            /\ (below < 2 /\ above < 2) => Val(result) = "split"

\* two percentiles above the high band and the third exactly on it
C17_Witness ==
    /\ Returned("get_percentile_consensus")
    /\ Val(args).a = <<6500, 7000, 10000, 3500, 6500>>
    /\ Val(result) = "weak_high"

(* C18: calculate_percentile returns a value in [0, 100] for every current   *)
(* price and window - 0 for a price below the window's minimum, 100 for one  *)
(* above its maximum - and exactly 50 whenever the window is empty or all    *)
(* its entries are equal, for any current price, without dividing by zero.   *)
C18_PercentileRange ==
    /\ (args /= None /\ Val(args).fn = "calculate_percentile") =>
           pc = "returned" /\ raised = ""
    /\ Returned("calculate_percentile") =>
           LET current == Val(args).a[1]
               prices == Val(args).a[2]
               flat == \A i, j \in 1..Len(prices) : prices[i] = prices[j]
           IN  /\ 0 <= Val(result) /\ Val(result) <= 10000
               /\ flat => Val(result) = 5000
               /\ (~flat /\ \A i \in 1..Len(prices) : current < prices[i]) =>
                      Val(result) = 0
               /\ (~flat /\ \A i \in 1..Len(prices) : current > prices[i]) =>
                      Val(result) = 10000

\* a current price above the maximum of a window with distinct entries
C18_Witness ==
    /\ Returned("calculate_percentile")
    /\ Val(args).a = <<240, <<60, 180>>>>
    /\ Val(result) = 10000

(* C19: for all non-empty windows, the percentile of the window's minimum is *)
(* 0 and the percentile of the window's maximum is 100.                      *)
C19_MinMaxPercentile ==
    (Returned("calculate_percentile") /\ Val(args).a[2] /= <<>>) =>
        LET current == Val(args).a[1]
            prices == Val(args).a[2]
        IN  /\ current = SeqMin(prices) => Val(result) = 0
            /\ current = SeqMax(prices) => Val(result) = 10000

(* C19, amended: for all windows with at least two different entries, the    *)
(* percentile of the window's minimum is 0 and the percentile of its maximum *)
(* is 100; for a non-empty window whose entries are all equal the percentile *)
(* of that value is 50.                                                      *)
C19_MinMaxPercentileAmended ==
    (Returned("calculate_percentile") /\ Val(args).a[2] /= <<>>) =>
        LET current == Val(args).a[1]
            prices == Val(args).a[2]
        IN  IF SeqMin(prices) < SeqMax(prices)
            THEN /\ current = SeqMin(prices) => Val(result) = 0
                 /\ current = SeqMax(prices) => Val(result) = 10000
            ELSE current = SeqMin(prices) => Val(result) = 5000

\* the maximum of a window whose minimum is not zero
C19_Witness ==
    /\ Returned("calculate_percentile")
    /\ Val(args).a = <<180, <<60, 180, 60>>>>
    /\ Val(result) = 10000

(* C20: for every volatility, get_dynamic_ma_threshold returns               *)
(* -clamp(0.3, 5.0, volatility / 10), always in [-5.0, -0.3], and            *)
(* get_dynamic_drop_threshold returns (normal, severe), both negative, with  *)
(* severe <= normal, normal in [-5.0, -0.20], severe in [-8.0, -0.40].       *)
C20_DynamicThresholds ==
    /\ Returned("get_dynamic_ma_threshold") =>
           LET volatility == Val(args).a[1]
               threshold == Val(result)
           IN  /\ -500 <= threshold /\ threshold <= -30
               /\ volatility < 300 => threshold = -30
               /\ volatility > 5000 => threshold = -500
               /\ (300 <= volatility /\ volatility <= 5000) =>
                      threshold * 10 = 0 - volatility
    /\ Returned("get_dynamic_drop_threshold") =>
           LET normal == Val(result)[1]
               severe == Val(result)[2]
           IN  /\ normal < 0 /\ severe < 0
               /\ severe <= normal
               /\ -500 <= normal /\ normal <= -20
               /\ -800 <= severe /\ severe <= -40

\* a volatility of zero: the moving-average threshold sits on its floor
C20_Witness ==
    /\ Returned("get_dynamic_ma_threshold")
    /\ Val(args).a = <<0>>
    /\ Val(result) = -30

-----------------------------------------------------------------------------
(* Properties of calculate_all_metrics on short histories (Spec) *)

(* C21: for a missing (empty) or too-short (single-entry) price history,     *)
(* calculate_all_metrics does not fail and returns the "insufficient         *)
(* information" defaults: all three percentile ranks equal 50, the moving   *)
(* average equals the current valuation, the moving-average deviation is 0,  *)
(* both drawdown figures are 0 and the volatility is 0.                      *)
C21_ShortHistoryDefaults ==
    (pc /= "start" /\ Len(prices_history) <= 1) =>
        /\ raised = ""
        /\ metrics /= None
        /\ Val(metrics).percentile_60 = 5000
        /\ Val(metrics).percentile_250 = 5000
        /\ Val(metrics).percentile_500 = 5000
        /\ Val(metrics).ma_60 = current_price
        /\ Val(metrics).ma_deviation = 0
        /\ Val(metrics).drawdown = 0
        /\ Val(metrics).drawdown_60 = 0
        /\ Val(metrics).volatility_60 = 0

-----------------------------------------------------------------------------
(* Properties of the threshold registry lookup (SpecIndicators) *)

\* the profile the lookup falls back to, as the registry states it: zone
\* boundaries 20/40/60/80, base deviation -3, breaker limits -7/+7, consensus
\* bands 40/60, advisory weight 0.5
GenericDefaultProfile ==
    StrategyThresholds(<<2000, 4000, 6000, 8000>>, -300, -700, 700, 4000, 6000, 5)

(* C22: get_thresholds is total: for each of the six defined asset-class    *)
(* names it returns that class's own profile, and for every other input      *)
(* (unknown string, empty string) it returns the generic default profile     *)
(* (DEFAULT_ETF) instead of failing; this holds at every call site: an       *)
(* unknown class string handed to either evaluator, to detect_bond_signal,   *)
(* to get_buy_multiplier or to the synthesizer resolves to that profile.     *)
C22_GetThresholdsTotal ==
    Returned("get_thresholds") =>
        LET cls == Val(args).a[2]
            argument == Val(args).a[4]
        IN  /\ raised = ""
            /\ result /= None
            /\ argument \in AssetClass => Val(result) = ASSET_THRESHOLDS(argument)
            /\ argument \notin AssetClass => Val(result) = GenericDefaultProfile
            /\ cls \notin AssetClass \cup {NoClass} =>
                   Val(result) = GenericDefaultProfile

\* evaluate_bond_strategy was handed an unknown class string and looked up the
\* growth default, with its -7 % breaker limit
C22_Witness ==
    /\ Returned("get_thresholds")
    /\ Val(args).a[1] = "evaluate_bond_strategy"
    /\ Val(args).a[2] = "UNKNOWN"
    /\ Val(result).circuit_breaker_drop = -700
    /\ Val(result).ai_weight = 5

-----------------------------------------------------------------------------
(* Properties of the per-fund pipeline (SpecPipeline) *)

\* the final decisions synthesize_decisions can give for the pipeline's
\* strategy result and advisory decision, over every confidence label and
\* every asset class
SynthesisFinalDecisions ==
    LET ai_decision == Val(ai_result).ai_decision
    IN  {synthesize_decisions(
             Val(strategy_result),
             IF ai_decision = None THEN None
             ELSE Some(AIDecisionResult(Val(ai_decision), conf)),
             cls).final_decision :
         conf \in {"high", "mid", "low"}, cls \in AssetClass}

(* C23: in process_single_fund the steps run in the order metrics ->         *)
(* strategy evaluation -> synthesis, and the decision written to the         *)
(* decision log and handed to the report is the final decision of the        *)
(* SynthesizedDecision the synthesizer produced from the quantitative        *)
(* verdict and the (possibly absent) qualitative verdict; no decision is     *)
(* persisted or reported that did not come out of synthesis.                 *)
C23_PipelineSynthesizes ==
    pc = "processed" =>
        /\ metrics /= None /\ strategy_result /= None
        /\ decision_log[Len(decision_log)].ai_decision \in SynthesisFinalDecisions
        /\ Val(Val(result).report).decision \in SynthesisFinalDecisions
        /\ synthesized /= None
        /\ decision_log[Len(decision_log)].ai_decision
               = Val(synthesized).final_decision

-----------------------------------------------------------------------------
(* Frame properties of the core operations (Spec) *)

ClassBandConsensus ==
    get_percentile_consensus(Val(metrics),
                             get_thresholds(EffectiveClass).consensus_low_threshold,
                             get_thresholds(EffectiveClass).consensus_high_threshold)

(* C25: the consensus that modulates an evaluator's verdict is computed with *)
(* the asset class's own consensus bands (35/65 for GOLD_ETF, 30/70 for      *)
(* COMMODITY_CYCLE, 45/55 for BOND_PURE), not with a fixed band: when the    *)
(* breaker has not tripped, the split warning is present exactly when the    *)
(* class-band consensus is split, and in the golden pit DoubleBuy is         *)
(* returned exactly when the class-band consensus is strong or weak low.     *)
C25_ClassBandConsensus ==
    (pc \in {"etf_evaluated", "bond_evaluated"} /\ ~BreakerTripped) =>
        LET r == Val(strategy_result)
            split == \E i \in 1..Len(r.warnings) :
                         r.warnings[i] = "consensus_split"
        IN  /\ split <=> ClassBandConsensus = "split"
            /\ r.zone = "golden" =>
                   (r.decision = "DoubleBuy"
                        <=> ClassBandConsensus \in {"strong_low", "weak_low"})

(* C26: the income evaluator's "broke below average" trigger fires exactly   *)
(* when the moving-average deviation is below the dynamic moving-average     *)
(* threshold -clamp(0.3, 5.0, volatility / 10), for every asset class: the   *)
(* signal detect_bond_signal returned names the moving-average trigger       *)
(* exactly then, and when it does and the instrument is not overvalued the   *)
(* verdict is NormalBuy or DoubleBuy.                                        *)
C26_MaBreakTrigger ==
    (pc = "bond_evaluated" /\ signal /= None) =>
        LET m == Val(metrics)
            s == Val(signal)
            named == \E i \in 1..Len(s.signal_type) : s.signal_type[i] = "ma_break"
            below == m.ma_deviation < get_dynamic_ma_threshold(m.volatility_60)
        IN  /\ named <=> below
            /\ below => s.has_opportunity
            /\ (below /\ ~s.is_overvalued) =>
                   Val(strategy_result).decision \in {"NormalBuy", "DoubleBuy"}

\* the warnings of the strategy result contain the tag
Warned(tag) ==
    \E i \in 1..Len(Val(strategy_result).warnings) :
        Val(strategy_result).warnings[i] = tag

(* C27: for every growth evaluation in which the breaker has not tripped,    *)
(* the uptrend warning is present exactly when the trend is uptrend          *)
(* (short-window minus long-window percentile > 20) and the selected zone    *)
(* is elevated or overvalued, and the downtrend warning exactly when the     *)
(* trend is downtrend (difference < -20) and the selected zone is golden or *)
(* undervalued; no trend warning is present in any other case.               *)
C27_TrendWarnings ==
    (pc = "etf_evaluated" /\ ~BreakerTripped) =>
        LET trend == trend_direction(Val(metrics))
            zone == Val(strategy_result).zone
        IN  /\ Warned("trend_up") <=>
                   (trend = "up" /\ zone \in {"elevated", "over"})
            /\ Warned("trend_down") <=>
                   (trend = "down" /\ zone \in {"golden", "under"})

-----------------------------------------------------------------------------
(* Further properties of the synthesizer (SpecSynth) *)

(* C28: for every pair of canonical verdicts, every asset class and every    *)
(* confidence, the priority of the final decision lies between the smaller   *)
(* and the larger of the two input priorities (inclusive): the synthesizer   *)
(* never returns a verdict more aggressive than the more aggressive input    *)
(* nor more conservative than the more conservative one.  In particular a    *)
(* quantitative Hold, such as the circuit breaker's, never becomes a final   *)
(* DoubleBuy whatever the qualitative verdict is.                            *)
C28_FinalBetweenInputs ==
    (pc = "synthesized" /\ CanonicalVerdict) =>
        LET ps == DECISION_PRIORITY(Val(strategy_result).decision)
            pa == DECISION_PRIORITY(Val(ai_result).decision)
            final_decision == Val(synthesized).final_decision
        IN  /\ final_decision \in Decision
            /\ PyMin2(ps, pa) <= DECISION_PRIORITY(final_decision)
            /\ DECISION_PRIORITY(final_decision) <= PyMax2(ps, pa)
            /\ Val(strategy_result).decision = "Hold" =>
                   final_decision /= "DoubleBuy"

\* a Hold with the breaker's confidence 0.3 met a DoubleBuy held with high
\* confidence, and the final decision is the NormalBuy between them
C28_Witness ==
    /\ pc = "synthesized"
    /\ CanonicalVerdict
    /\ Val(strategy_result).decision = "Hold"
    /\ Val(strategy_result).confidence = 3000
    /\ Val(ai_result).decision = "DoubleBuy"
    /\ Val(ai_result).confidence = "high"
    /\ Val(synthesized).final_decision = "NormalBuy"

-----------------------------------------------------------------------------
(* Further properties of the strategy evaluators (SpecStrategy) *)

(* C29: in the income evaluator, whenever both opportunity triggers fire in  *)
(* the same evaluation and the breaker has not tripped, the moving-average   *)
(* trigger contributes at least 1/3 and the single-day-drop trigger at least *)
(* 1/2 (to the four decimal places of the model), the summed strength is     *)
(* above 0.8, and the verdict is DoubleBuy when the instrument is not        *)
(* overvalued and the reduced-size NormalBuy, never Hold, when it is; every  *)
(* individual strength and the capped sum stay within [0, 1].                *)
C29_BothTriggers ==
    (pc = "bond_evaluated" /\ signal /= None) =>
        LET s == Val(signal)
            m == Val(metrics)
            dyn == Val(s.dynamic_thresholds)
            ma == MaBreakSignal(m, dyn.ma_threshold)
            drop == DropSignal(m, dyn.drop_normal, dyn.drop_severe)
            r == Val(strategy_result)
        IN  /\ 0 <= s.strength /\ s.strength <= 10000
            /\ ma /= <<>> => (0 <= ma[1].strength /\ ma[1].strength <= 10000)
            /\ drop /= <<>> => (0 <= drop[1].strength /\ drop[1].strength <= 10000)
            /\ Len(s.signal_type) = 2 <=> (ma /= <<>> /\ drop /= <<>>)
            /\ Len(s.signal_type) = 2 =>
                   /\ ma[1].strength >= 3333
                   /\ drop[1].strength >= 5000
                   /\ s.strength > 8000
                   /\ s.strength = PyMin2(ma[1].strength + drop[1].strength, 10000)
                   /\ ~s.is_overvalued => r.decision = "DoubleBuy"
                   /\ s.is_overvalued =>
                          (r.decision = "NormalBuy" /\ Warned("reduce_position"))

\* both triggers fired below their caps on an instrument that is not
\* overvalued: the sum is between 0.8 and 1 and the verdict is DoubleBuy
C29_Witness ==
    /\ pc = "bond_evaluated"
    /\ signal /= None
    /\ Len(Val(signal).signal_type) = 2
    /\ Val(signal).strength > 8000
    /\ Val(signal).strength < 10000
    /\ ~Val(signal).is_overvalued
    /\ Val(strategy_result).decision = "DoubleBuy"

-----------------------------------------------------------------------------
(* Properties of two growth evaluations under one class (SpecPair) *)

\* position of a zone in the order golden < under < fair < elevated < over
ZoneRank(zone) ==
    CASE zone = "golden" -> 1
      [] zone = "under" -> 2
      [] zone = "fair" -> 3
      [] zone = "elevated" -> 4
      [] zone = "over" -> 5

\* the daily change of m is outside the breaker limits of the class
PairBreakerTripped(m) ==
    /\ m.daily_change /= None
    /\ \/ Val(m.daily_change) < get_thresholds(asset_class).circuit_breaker_drop
       \/ Val(m.daily_change) > get_thresholds(asset_class).circuit_breaker_rise

(* C30: for every growth class other than GOLD_ETF the growth evaluator's    *)
(* verdict is monotone in the zone: for any two evaluations under the same   *)
(* class in which the breaker has not tripped, if the first one's            *)
(* mid-window percentile falls in a lower zone than the second one's, the    *)
(* first verdict's priority is >= the second's, whatever the consensus,      *)
(* deviation and trend of either; DoubleBuy is returned only below the first *)
(* zone boundary and StopBuy only at or above the fourth.                    *)
C30_ZoneMonotone ==
    (pc = "second_evaluated" /\ asset_class /= "GOLD_ETF") =>
        LET m1 == Val(args).a[1]
            m2 == Val(metrics)
            r1 == Val(result)
            r2 == Val(strategy_result)
            thresholds == get_thresholds(asset_class)
            zones == thresholds.zone_thresholds
            zone1 == get_zone_name(m1.percentile_250, thresholds)
            zone2 == get_zone_name(m2.percentile_250, thresholds)
        IN  /\ (~PairBreakerTripped(m1) /\ ~PairBreakerTripped(m2)
                /\ ZoneRank(zone1) < ZoneRank(zone2)) =>
                   DECISION_PRIORITY(r1.decision) >= DECISION_PRIORITY(r2.decision)
            /\ r1.decision = "DoubleBuy" => m1.percentile_250 < zones[1]
            /\ r2.decision = "DoubleBuy" => m2.percentile_250 < zones[1]
            /\ r1.decision = "StopBuy" => m1.percentile_250 >= zones[4]
            /\ r2.decision = "StopBuy" => m2.percentile_250 >= zones[4]

\* a cycle fund in the undervalued zone and then in the fair zone below its
\* average: both NormalBuy, the order holds with equal priorities
C30_Witness ==
    /\ pc = "second_evaluated"
    /\ asset_class = "COMMODITY_CYCLE"
    /\ Val(result).zone = "under"
    /\ Val(strategy_result).zone = "fair"
    /\ Val(result).decision = "NormalBuy"
    /\ Val(strategy_result).decision = "NormalBuy"

=============================================================================
